---- MODULE Spec2Model ----
(***************************************************************************)
(* Batch execution engine of grok-imagine-image-mcp-server:                *)
(* src/src/utils/batch-config.ts (Semaphore, BatchManager.executeBatch,    *)
(* BatchManager.executeJob).                                               *)
(*                                                                         *)
(* JavaScript runs one callback at a time, so every action below is one    *)
(* run-to-completion step: a synchronous block, or a timer / I/O callback  *)
(* together with the promise continuations it triggers.                    *)
(***************************************************************************)
EXTENDS Integers, Sequences, FiniteSets, TLC

(* ---- bounds of the model ---- *)
MaxJobs == 3
MaxConcurrentBound == 2
MaxRetriesBound == 1
RetryRunJobs == 2
TimerRunJobs == 2
CostRunJobs == 2
LiveRunJobs == 2
CliRunJobs == 2
PathRunJobs == 2

(* ---- program constants ---- *)
MaxRetriesLimit == 5
MinRetryDelayMs == 100
DefaultRetryDelayMs == 1000
DefaultTimeoutMs == 600000

Absent == "undefined"

\* a numeric field or option that is not given (undefined), and the NaN that
\* parseInt returns for an argument that is no number
NoNumber == -1
NaN == -2

(* ---- strings as the code sees them: sequences of characters ---- *)
UpperCase == <<"A","B","C","D","E","F","G","H","I","J","K","L","M",
               "N","O","P","Q","R","S","T","U","V","W","X","Y","Z">>
LowerCase == <<"a","b","c","d","e","f","g","h","i","j","k","l","m",
               "n","o","p","q","r","s","t","u","v","w","x","y","z">>

LowerChar(c) ==
    IF \E i \in 1..26 : UpperCase[i] = c
    THEN LowerCase[CHOOSE i \in 1..26 : UpperCase[i] = c]
    ELSE c

\* String.prototype.toLowerCase
toLowerCase(s) == [i \in 1..Len(s) |-> LowerChar(s[i])]

\* String.prototype.includes
includes(s, sub) ==
    \E i \in 0..(Len(s) - Len(sub)) : SubSeq(s, i + 1, i + Len(sub)) = sub

\* Error messages the Image Operation rejects with (generateImage).
MsgRateLimit == "Rate limit exceeded. Please wait and try again."
MsgServer503 == "API error (503): Service Unavailable"

ErrorMessages == {MsgRateLimit, MsgServer503}

\* a rejection of the Image Operation with null instead of an Error object
RejectedWithNull == "null"

Chars(m) ==
    CASE m = MsgRateLimit ->
           <<"R","a","t","e"," ","l","i","m","i","t"," ","e","x","c","e","e","d","e","d","."," ",
             "P","l","e","a","s","e"," ","w","a","i","t"," ","a","n","d"," ","t","r","y"," ",
             "a","g","a","i","n",".">>
      [] m = MsgServer503 ->
           <<"A","P","I"," ","e","r","r","o","r"," ","(","5","0","3",")",":"," ",
             "S","e","r","v","i","c","e"," ","U","n","a","v","a","i","l","a","b","l","e">>

\* retry_on_errors when the policy gives none (executeJob)
DefaultRetryPatterns ==
    << <<"r","a","t","e","_","l","i","m","i","t">>,
       <<"t","i","m","e","o","u","t">>,
       <<"4","2","9">>,
       <<"5","0","3">> >>

\* a retry_on_errors list of a configuration file
CustomRetryPatterns == << <<"R","A","T","E"," ","L","I","M","I","T">> >>

RetryOnErrorsChoices == {Absent, "custom"}

\* the same and the empty list
RetryOnErrorsValues == RetryOnErrorsChoices \cup {"empty"}

VARIABLES
    config,        \* the BatchConfig given to executeBatch
    options,       \* the BatchExecutionOptions given to executeBatch
    permits,       \* Semaphore.permits
    queue,         \* Semaphore.queue: the suspended acquirers, oldest first
    batchPc,       \* position of executeBatch: "launching", "racing", "grace",
                   \* "returned" (resolved with a report), "threw" (rejected)
    launched,      \* loop index i of the job-creating loop
    timer,         \* the batch setTimeout: "unset", "armed", "fired"
    race,          \* state of the Promise.race: "pending", "fulfilled", "rejected"
    timedOut,      \* local timedOut of executeBatch
    results,       \* the results array (the report returned holds this same array)
    report,        \* the counts of the BatchResult returned (NoReport before)
    pc,            \* position of each job task: "created", "waiting", "acquired",
                   \* "calling", "sleeping", "settled" (fulfilled), "rejected"
    attempt,       \* loop variable attempt of executeJob
    lastError,     \* lastError of executeJob
    sleptMs,       \* delay waited between the last failure and the current attempt
    outputPath,    \* outputPath of each job task (<<>> before the task is created)
    calls,         \* history: Image Operation calls made by each job
    failures,      \* history: Image Operation calls of each job that were rejected
    outcome,       \* history: the status executeJob returned for each job, or ""
    estimate,      \* the CostEstimate the last call of estimateBatchCost returned
    cliPc,         \* position of main of the batch CLI: "none" (executeBatch is called
                   \* by other code), "start", "executing", "exited"
    argv,          \* the command line: --timeout and --max-concurrent after parseInt,
                   \* --estimate-only
    exitCode,      \* the status given to process.exit (NoNumber before)
    observed,      \* TRUE in the runs that record which attempts failed how
    nonRetryAt     \* history: the call at which a job first failed with a message
                   \* that matches no pattern, or 0 (recorded when observed)

vars == <<config, options, permits, queue, batchPc, launched, timer, race, timedOut,
          results, report, pc, attempt, lastError, sleptMs, outputPath, calls, failures,
          outcome, estimate, cliPc, argv, exitCode, observed, nonRetryAt>>

\* what no step of a batch changes
fixed == <<config, options, estimate, cliPc, argv, exitCode>>

NumJobs == Len(config.jobs)
Jobs == 1..NumJobs

(* ---- Semaphore ---- *)

\* (variant: the test admits a caller when no permit is left)
AcquireGrantsAtZero(p) == p >= 0

\* acquire(): the branch that takes a permit at once
AcquireGrants(p) == p > 0

\* (variant: a new waiter is put in front of the others)
EnqueueAtFront(q, j) == <<j>> \o q

\* acquire(): this.queue.push(resolve)
Enqueue(q, j) == Append(q, j)

\* (variant: the permit goes to the newest waiter)
ReleaseToNewest(p, q) ==
    IF Len(q) > 0
    THEN [permits |-> p, queue |-> SubSeq(q, 1, Len(q) - 1), next |-> q[Len(q)]]
    ELSE [permits |-> p + 1, queue |-> q, next |-> 0]

\* (variant: the permit is put back and no waiter is woken)
ReleaseWithoutWake(p, q) == [permits |-> p + 1, queue |-> q, next |-> 0]

\* (variant: the oldest waiter is taken from the queue and never resumed)
ReleaseForgetsWaiter(p, q) ==
    IF Len(q) > 0
    THEN [permits |-> p, queue |-> Tail(q), next |-> 0]
    ELSE [permits |-> p + 1, queue |-> q, next |-> 0]

\* (variant: the oldest waiter is resumed and the permit is put back as well)
ReleaseWakesAndAdds(p, q) ==
    IF Len(q) > 0
    THEN [permits |-> p + 1, queue |-> Tail(q), next |-> Head(q)]
    ELSE [permits |-> p + 1, queue |-> q, next |-> 0]

\* release(): hand the permit to the oldest waiter, or put it back
Release(p, q) ==
    IF Len(q) > 0
    THEN [permits |-> p, queue |-> Tail(q), next |-> Head(q)]
    ELSE [permits |-> p + 1, queue |-> q, next |-> 0]

(* ---- executeJob helpers ---- *)

maxRetries == config.retry_policy.max_retries
retryDelay == config.retry_policy.retry_delay_ms

\* (variant: an empty list is replaced by the built-in patterns, like an absent one)
retryPatternsOrBuiltIn(given) ==
    IF given \in {Absent, "empty"} THEN DefaultRetryPatterns ELSE CustomRetryPatterns

\* retryPolicy.retry_on_errors ?? ['rate_limit', 'timeout', '429', '503']
retryPatterns(given) ==
    IF given = Absent THEN DefaultRetryPatterns
    ELSE IF given = "empty" THEN <<>>
    ELSE CustomRetryPatterns

\* retryPatterns.some((pattern) => lastError.toLowerCase().includes(pattern.toLowerCase()))
SomePatternMatches(msg, patterns) ==
    \E k \in 1..Len(patterns) :
        includes(toLowerCase(Chars(msg)), toLowerCase(patterns[k]))

\* the messages each retry_on_errors choice makes retryable (evaluated once)
MatchTable ==
    [given \in RetryOnErrorsValues |->
        {m \in ErrorMessages : SomePatternMatches(m, retryPatterns(given))}]

MatchesPattern(msg) == msg \in MatchTable[config.retry_policy.retry_on_errors]

shouldRetry(att, msg) == att < maxRetries /\ MatchesPattern(msg)

\* (variants: the loop bound off by one, either way)
LoopOneMore(att) == att <= maxRetries + 1
LoopOneLess(att) == att < maxRetries

\* the loop condition of executeJob
LoopContinues(att) == att <= maxRetries

\* (variant: only errors that match a pattern are caught, the others rethrown)
ExecutorCatchesRetryable(msg) == MatchesPattern(msg)

\* the try/catch of executeJob: a rejection of the Image Operation is caught; the
\* catch block reads error.message, which throws when the rejection is null
ExecutorCatches(msg) == msg # RejectedWithNull

\* the delay the executor waits after the failure of attempt att
RetryDelayFor(att) == retryDelay

FailedResult(j, msg) == [index |-> j, status |-> "failed", error |-> msg]
\* (variant: an unfinished job is marked failed)
CancelledAsFailed(j) ==
    [index |-> j, status |-> "failed", error |-> "Job cancelled due to timeout"]

CancelledResult(j) ==
    [index |-> j, status |-> "cancelled", error |-> "Job cancelled due to timeout"]

(* ---- executeBatch helpers ---- *)

\* (variant: the set holds 0-based indices, the sweep looks up 1-based ones)
completedIndicesZeroBased(rs) == {rs[k].index - 1 : k \in 1..Len(rs)}

completedIndices(rs) == {rs[k].index : k \in 1..Len(rs)}

RECURSIVE SweepFrom(_, _, _)
SweepFrom(rs, i, n) ==
    IF i > n THEN rs
    ELSE IF i \in completedIndices(rs)
         THEN SweepFrom(rs, i + 1, n)
         ELSE SweepFrom(Append(rs, CancelledResult(i)), i + 1, n)

\* (variant: no sweep)
SweepNothing(rs, n) == rs

\* (variant: the sweep adds a cancelled entry for every job, recorded or not)
SweepEveryJob(rs, n) == rs \o [i \in 1..n |-> CancelledResult(i)]

\* "Mark incomplete jobs as cancelled"
Sweep(rs, n) == SweepFrom(rs, 1, n)

\* insertion of one record into a list sorted by index, after its equals (stable)
RECURSIVE InsertByIndex(_, _)
InsertByIndex(sorted, r) ==
    IF sorted = <<>> THEN <<r>>
    ELSE IF r.index < Head(sorted).index
         THEN <<r>> \o sorted
         ELSE <<Head(sorted)>> \o InsertByIndex(Tail(sorted), r)

RECURSIVE SortFrom(_, _)
SortFrom(sorted, rest) ==
    IF rest = <<>> THEN sorted
    ELSE SortFrom(InsertByIndex(sorted, Head(rest)), Tail(rest))

\* (variant: the results stay in the order they were pushed)
SortNothing(rs) == rs

\* results.sort((a, b) => a.index - b.index)
SortByIndex(rs) == SortFrom(<<>>, rs)

\* results.filter((r) => r.status === s).length
CountStatus(rs, s) == Cardinality({k \in 1..Len(rs) : rs[k].status = s})

\* (variant: at the end the recorded results are dropped and every job is swept)
FinalResultsAllSwept(rs) == SortByIndex(Sweep(<<>>, NumJobs))

\* the code from "Mark incomplete jobs as cancelled" to the sort
FinalResults(rs) == SortByIndex(Sweep(rs, NumJobs))

(* ---- estimateBatchCost ---- *)

\* model names a job or default_model can carry: the four of MODEL_COSTS and two
\* that MODEL_COSTS does not know
ModelNames ==
    {"grok-imagine-image", "grok-2-image", "grok-2-image-latest", "grok-2-image-1212",
     "dall-e-3", "grok-2-image_edit"}

NameChars(m) ==
    CASE m = "grok-imagine-image" ->
           <<"g","r","o","k","-","i","m","a","g","i","n","e","-","i","m","a","g","e">>
      [] m = "grok-2-image" -> <<"g","r","o","k","-","2","-","i","m","a","g","e">>
      [] m = "grok-2-image-latest" ->
           <<"g","r","o","k","-","2","-","i","m","a","g","e","-","l","a","t","e","s","t">>
      [] m = "grok-2-image-1212" ->
           <<"g","r","o","k","-","2","-","i","m","a","g","e","-","1","2","1","2">>
      [] m = "dall-e-3" -> <<"d","a","l","l","-","e","-","3">>
      [] m = "grok-2-image_edit" ->
           <<"g","r","o","k","-","2","-","i","m","a","g","e","_","e","d","i","t">>

\* MODEL_COSTS, in thousandths of a dollar
MODEL_COSTS ==
    << [name |-> NameChars("grok-imagine-image"), base |-> 20, edit_input |-> 2],
       [name |-> NameChars("grok-2-image"), base |-> 70, edit_input |-> 0],
       [name |-> NameChars("grok-2-image-latest"), base |-> 70, edit_input |-> 0],
       [name |-> NameChars("grok-2-image-1212"), base |-> 70, edit_input |-> 0] >>

EditSuffix == <<"_","e","d","i","t">>

\* String.prototype.replace(pattern, '') with a string pattern: the first occurrence
replace(s, pat) ==
    IF includes(s, pat)
    THEN LET i == CHOOSE i \in 0..(Len(s) - Len(pat)) :
                    /\ SubSeq(s, i + 1, i + Len(pat)) = pat
                    /\ \A h \in 0..(i - 1) : SubSeq(s, h + 1, h + Len(pat)) # pat
         IN  SubSeq(s, 1, i) \o SubSeq(s, i + Len(pat) + 1, Len(s))
    ELSE s

\* `${model}${isEdit ? '_edit' : ''}`
KeyFor(m, isEdit) == NameChars(m) \o (IF isEdit THEN EditSuffix ELSE <<>>)

\* the keys of all (model, isEdit) pairs (evaluated once)
KeyTable == [m \in ModelNames |-> [e \in BOOLEAN |-> KeyFor(m, e)]]

\* MODEL_COSTS[modelName] || MODEL_COSTS['grok-imagine-image']
CostsOf(modelName) ==
    IF \E i \in 1..Len(MODEL_COSTS) : MODEL_COSTS[i].name = modelName
    THEN MODEL_COSTS[CHOOSE i \in 1..Len(MODEL_COSTS) : MODEL_COSTS[i].name = modelName]
    ELSE MODEL_COSTS[1]

\* the costs the second loop finds for each key: key.replace('_edit', '') looked up in
\* MODEL_COSTS (evaluated once)
CostTable ==
    [k \in {KeyTable[m][e] : m \in ModelNames, e \in BOOLEAN} |->
        CostsOf(replace(k, EditSuffix))]

\* job.model || config.default_model || 'grok-imagine-image'
jobModel(job, cfg) ==
    IF job.model # Absent THEN job.model
    ELSE IF cfg.default_model # Absent THEN cfg.default_model
    ELSE "grok-imagine-image"

\* job.n || 1   (an absent n is 0 here)
jobImages(job) == IF job.n # 0 THEN job.n ELSE 1

\* !!(job.image_path || job.image_base64 || job.image_url)
jobIsEdit(job) == job.image_path # Absent

\* one iteration of the first loop: create the entry of the job's key if there is
\* none, then count the job and its images
CountJob(modelCounts, job, cfg) ==
    LET key == KeyTable[jobModel(job, cfg)][jobIsEdit(job)] IN
    IF \E i \in 1..Len(modelCounts) : modelCounts[i].key = key
    THEN [i \in 1..Len(modelCounts) |->
             IF modelCounts[i].key = key
             THEN [modelCounts[i] EXCEPT !.count = @ + 1, !.images = @ + jobImages(job)]
             ELSE modelCounts[i]]
    ELSE Append(modelCounts,
                [key |-> key, count |-> 1, images |-> jobImages(job),
                 isEdit |-> jobIsEdit(job)])

\* the first loop (the counts after a job are bound once, then the loop goes on)
RECURSIVE CountJobs(_, _, _)
CountJobs(modelCounts, jobs, cfg) ==
    IF jobs = <<>> THEN modelCounts
    ELSE CHOOSE counted \in {CountJobs(next, Tail(jobs), cfg) :
                                next \in {CountJob(modelCounts, Head(jobs), cfg)}} : TRUE

\* one iteration of the second loop: the breakdown entry of a key
BreakdownEntry(data) ==
    LET costs == CostTable[data.key]
        baseCost == costs.base * data.images
        editCost == IF data.isEdit THEN costs.edit_input * data.count ELSE 0
    IN  [model |-> data.key, count |-> data.count, images |-> data.images,
         costMin |-> baseCost + editCost, costMax |-> baseCost + editCost]

\* the end of one iteration of the second loop: breakdown.push(...) and the totals
AddEntry(acc, entry) ==
    [totalJobs |-> acc.totalJobs,
     totalImages |-> acc.totalImages + entry.images,
     estimatedCostMin |-> acc.estimatedCostMin + entry.costMin,
     estimatedCostMax |-> acc.estimatedCostMax + entry.costMax,
     breakdown |-> Append(acc.breakdown, entry)]

\* the second loop, over Object.entries(modelCounts) from entry i on
RECURSIVE SumEntries(_, _, _)
SumEntries(modelCounts, i, acc) ==
    IF i > Len(modelCounts) THEN acc
    ELSE SumEntries(modelCounts, i + 1, AddEntry(acc, BreakdownEntry(modelCounts[i])))

\* the estimate of a job list under the defaults of cfg
EstimateJobs(jobs, cfg) ==
    SumEntries(CountJobs(<<>>, jobs, cfg), 1,
               [totalJobs |-> Len(jobs), totalImages |-> 0, estimatedCostMin |-> 0,
                estimatedCostMax |-> 0, breakdown |-> <<>>])

RECURSIVE KeepRecorded(_, _, _)
KeepRecorded(jobs, i, recorded) ==
    IF i > Len(jobs) THEN <<>>
    ELSE (IF i \in recorded THEN <<jobs[i]>> ELSE <<>>)
             \o KeepRecorded(jobs, i + 1, recorded)

\* (variant: only the jobs that have a recorded result are estimated)
estimateRecordedOnly(cfg) ==
    EstimateJobs(KeepRecorded(cfg.jobs, 1, completedIndices(results)), cfg)

estimateBatchCost(cfg) == EstimateJobs(cfg.jobs, cfg)

\* the value of estimate while estimateBatchCost has returned nothing
NoEstimate ==
    [totalJobs |-> 0, totalImages |-> 0, estimatedCostMin |-> 0, estimatedCostMax |-> 0,
     breakdown |-> <<>>]

\* (variant: the test of timedOut inverted)
CatchBranchInverted(flag) == IF flag THEN "threw" ELSE "grace"

\* the catch of executeBatch: wait the grace period if timedOut, else rethrow
CatchBranch(flag) == IF flag THEN "grace" ELSE "threw"

\* (variant: the estimate covers only the jobs that completed)
BuildReportCostOfCompleted(rs) ==
    [total |-> NumJobs,
     succeeded |-> CountStatus(rs, "completed"),
     failed |-> CountStatus(rs, "failed"),
     cancelled |-> CountStatus(rs, "cancelled"),
     estimated_cost |->
         EstimateJobs(KeepRecorded(config.jobs, 1,
                                   {rs[k].index : k \in {h \in 1..Len(rs) :
                                                            rs[h].status = "completed"}}),
                      config).estimatedCostMin]

BuildReport(rs) ==
    [total |-> NumJobs,
     succeeded |-> CountStatus(rs, "completed"),
     failed |-> CountStatus(rs, "failed"),
     cancelled |-> CountStatus(rs, "cancelled"),
     estimated_cost |-> estimateBatchCost(config).estimatedCostMin]

\* the value of report while executeBatch has returned nothing
NoReport ==
    [total |-> 0, succeeded |-> 0, failed |-> 0, cancelled |-> 0, estimated_cost |-> 0]

(* ---- paths: node:path (POSIX) and resolveOutputPath ---- *)

\* process.cwd(), which is also getDefaultOutputDirectory() when OUTPUT_DIR is not set
Cwd == <<"/","w">>

\* values of output_dir of a configuration
OutputDirs == {Absent, "/out", "./out"}

\* values of output_path of a job
OutputPaths ==
    {Absent, "a.jpg", "../a.jpg", "/out/a.jpg", "/outx/a.jpg", "/etc/a.jpg",
     "/out/../a.jpg"}

PathChars(p) ==
    CASE p = "/out" -> <<"/","o","u","t">>
      [] p = "./out" -> <<".","/","o","u","t">>
      [] p = "a.jpg" -> <<"a",".","j","p","g">>
      [] p = "../a.jpg" -> <<".",".","/","a",".","j","p","g">>
      [] p = "/out/a.jpg" -> <<"/","o","u","t","/","a",".","j","p","g">>
      [] p = "/outx/a.jpg" -> <<"/","o","u","t","x","/","a",".","j","p","g">>
      [] p = "/etc/a.jpg" -> <<"/","e","t","c","/","a",".","j","p","g">>
      [] p = "/out/../a.jpg" -> <<"/","o","u","t","/",".",".","/","a",".","j","p","g">>

Slash == <<"/">>

\* path.isAbsolute
isAbsolute(s) == Len(s) > 0 /\ s[1] = "/"

\* String.prototype.startsWith
startsWith(s, prefix) == Len(prefix) <= Len(s) /\ SubSeq(s, 1, Len(prefix)) = prefix

\* the segments of a path between its slashes
RECURSIVE SplitFrom(_, _, _, _)
SplitFrom(s, i, cur, segs) ==
    IF i > Len(s) THEN Append(segs, cur)
    ELSE IF s[i] = "/" THEN SplitFrom(s, i + 1, <<>>, Append(segs, cur))
    ELSE SplitFrom(s, i + 1, Append(cur, s[i]), segs)

Split(s) == SplitFrom(s, 1, <<>>, <<>>)

\* normalizeString of node:path: empty and "." segments are dropped, ".." removes the
\* segment before it; above the root it is dropped, above a relative start it is kept
RECURSIVE NormalizeSegs(_, _, _, _)
NormalizeSegs(segs, i, abs, kept) ==
    IF i > Len(segs) THEN kept
    ELSE IF segs[i] = <<>> \/ segs[i] = <<".">> THEN NormalizeSegs(segs, i + 1, abs, kept)
    ELSE IF segs[i] = <<".", ".">>
         THEN IF Len(kept) > 0 /\ kept[Len(kept)] # <<".", ".">>
              THEN NormalizeSegs(segs, i + 1, abs, SubSeq(kept, 1, Len(kept) - 1))
              ELSE IF abs THEN NormalizeSegs(segs, i + 1, abs, kept)
              ELSE NormalizeSegs(segs, i + 1, abs, Append(kept, segs[i]))
    ELSE NormalizeSegs(segs, i + 1, abs, Append(kept, segs[i]))

RECURSIVE JoinSegs(_)
JoinSegs(segs) ==
    IF segs = <<>> THEN <<>>
    ELSE IF Len(segs) = 1 THEN segs[1]
    ELSE segs[1] \o Slash \o JoinSegs(Tail(segs))

\* path.normalize (of a path without a trailing slash)
normalize(s) ==
    LET kept == JoinSegs(NormalizeSegs(Split(s), 1, isAbsolute(s), <<>>)) IN
    IF isAbsolute(s) THEN Slash \o kept
    ELSE IF kept = <<>> THEN <<".">>
    ELSE kept

\* path.resolve of one path
resolve(s) == IF isAbsolute(s) THEN normalize(s) ELSE normalize(Cwd \o Slash \o s)

\* path.join of two non-empty paths
join(a, b) == normalize(a \o Slash \o b)

\* config.output_dir || getDefaultOutputDirectory()
outputDirOf(cfg) == IF cfg.output_dir # Absent THEN PathChars(cfg.output_dir) ELSE Cwd

Digits == <<"1","2","3","4","5","6","7","8","9">>

\* `${prefix}_${index + 1}.jpg` (index is the 1-based job index here)
DefaultFileName(job, index) ==
    (IF jobIsEdit(job) THEN <<"e","d","i","t","e","d">>
     ELSE <<"g","e","n","e","r","a","t","e","d">>)
        \o <<"_", Digits[index], ".","j","p","g">>

\* what resolveOutputPath does for a job: it throws BatchConfigError or returns a path
\* (index is the 1-based job index here)
resolveOutputPath(job, index, outputDir, allowAnyPath) ==
    IF job.output_path # Absent
    THEN IF isAbsolute(PathChars(job.output_path))
         THEN IF ~allowAnyPath
                   /\ ~startsWith(resolve(PathChars(job.output_path)), resolve(outputDir))
              THEN [threw |-> TRUE, path |-> <<>>]
              ELSE [threw |-> FALSE, path |-> PathChars(job.output_path)]
         ELSE [threw |-> FALSE, path |-> join(outputDir, PathChars(job.output_path))]
    ELSE [threw |-> FALSE, path |-> join(outputDir, DefaultFileName(job, index))]

(* ---- the result text of the Image Operation and its parsing in executeJob ---- *)

TextImage ==
    <<"I","m","a","g","e"," ">>
TextImages ==
    <<" ","i","m","a","g","e","s"," ">>
TextGenerated ==
    <<"g","e","n","e","r","a","t","e","d">>
TextEdited ==
    <<"e","d","i","t","e","d">>
TextSaved ==
    <<"s","a","v","e","d">>
TextSuccessfully ==
    <<" ","s","u","c","c","e","s","s","f","u","l","l","y",":">>
TextParameters ==
    <<"\n","P","a","r","a","m","e","t","e","r","s",":","\n"," "," ","-"," ","M","o","d",
      "e","l",":"," ">>
TextAspectRatio ==
    <<"\n"," "," ","-"," ","A","s","p","e","c","t"," ","r","a","t","i","o",":"," ","1",
      ":","1">>
TextResolution ==
    <<"\n"," "," ","-"," ","R","e","s","o","l","u","t","i","o","n",":"," ","1","k">>

\* the index of the last "." of s, or 0
LastDot(s) ==
    IF \E i \in 1..Len(s) : s[i] = "."
    THEN CHOOSE i \in 1..Len(s) : s[i] = "." /\ \A h \in (i + 1)..Len(s) : s[h] # "."
    ELSE 0

\* the file the Image Operation saves image i of n to: normalizedPath, numbered when
\* n > 1 (split('.'), pop, join('.'))
imagePath(normalizedPath, n, i) ==
    IF n > 1
    THEN LET d == LastDot(normalizedPath)
             ext == SubSeq(normalizedPath, d + 1, Len(normalizedPath))
             basePath == SubSeq(normalizedPath, 1, d - 1)
         IN  basePath \o <<"_", Digits[i], ".">> \o ext
    ELSE normalizedPath

\* savedPaths after n images were saved
savedPaths(normalizedPath, n) == [i \in 1..n |-> imagePath(normalizedPath, n, i)]

\* the lines `  ${idx + 1}. ${path}\n` of the saved paths from entry i on
RECURSIVE PathLines(_, _)
PathLines(saved, i) ==
    IF i > Len(saved) THEN <<>>
    ELSE <<" ", " ", Digits[i], ".", " ">> \o saved[i] \o <<"\n">> \o PathLines(saved, i + 1)

\* resultText of generateImage (isEdit false) and editImage (isEdit true) for n images
\* saved, without a revised prompt
resultText(isEdit, n, saved, model) ==
    (IF n = 1
     THEN TextImage \o (IF isEdit THEN TextEdited ELSE TextGenerated)
              \o TextSuccessfully \o <<" ">> \o saved[1]
     ELSE <<Digits[n]>> \o TextImages \o (IF isEdit THEN TextEdited ELSE TextGenerated)
              \o TextSuccessfully \o <<"\n">> \o PathLines(saved, 1))
        \o TextParameters \o NameChars(model)
        \o (IF isEdit THEN <<>> ELSE TextAspectRatio)
        \o TextResolution

\* \s of a regular expression, for the characters that occur
IsSpace(c) == c \in {" ", "\n", "\t", "\r"}

\* (?:saved|generated|edited) with the flag i, at position i of text: the length of
\* the word that stands there, or 0
KeywordAt(text, i) ==
    IF \E w \in {TextSaved, TextGenerated, TextEdited} :
           /\ i + Len(w) - 1 <= Len(text)
           /\ toLowerCase(SubSeq(text, i, i + Len(w) - 1)) = w
    THEN Len(CHOOSE w \in {TextSaved, TextGenerated, TextEdited} :
                 /\ i + Len(w) - 1 <= Len(text)
                 /\ toLowerCase(SubSeq(text, i, i + Len(w) - 1)) = w)
    ELSE 0

\* the smallest index h >= i with text[h] = c, or Len(text) + 1
NextIndexOf(text, i, c) ==
    IF \E h \in i..Len(text) : text[h] = c
    THEN CHOOSE h \in i..Len(text) : text[h] = c /\ \A g \in i..(h - 1) : text[g] # c
    ELSE Len(text) + 1

\* `:\s*([^\n]+)` from the colon at index colon of text: \s* takes the white space
\* after the colon and gives back what the group needs; the result is the group's
\* first and last index, or 0 and 0 when there is no match
GroupAfterColon(text, colon) ==
    LET spaceEnd ==
            IF \E h \in (colon + 1)..Len(text) : ~IsSpace(text[h])
            THEN CHOOSE h \in (colon + 1)..Len(text) :
                     ~IsSpace(text[h]) /\ \A g \in (colon + 1)..(h - 1) : IsSpace(text[g])
            ELSE Len(text) + 1
        starts == {q \in (colon + 1)..spaceEnd : q <= Len(text) /\ text[q] # "\n"}
    IN  IF starts = {} THEN [from |-> 0, to |-> 0]
        ELSE LET q == CHOOSE q \in starts : \A h \in starts : h <= q
             IN  [from |-> q, to |-> NextIndexOf(text, q, "\n") - 1]

\* /(?:saved|generated|edited)[^:]*:\s*([^\n]+)/i tried at position i of text: the
\* indices of the match and of its group (from = 0: no match at i)
MatchAt(text, i) ==
    IF KeywordAt(text, i) = 0 THEN [from |-> 0, to |-> 0, group |-> 0]
    ELSE LET colon == NextIndexOf(text, i + KeywordAt(text, i), ":") IN
         IF colon > Len(text) THEN [from |-> 0, to |-> 0, group |-> 0]
         ELSE LET g == GroupAfterColon(text, colon) IN
              IF g.from = 0 THEN [from |-> 0, to |-> 0, group |-> 0]
              ELSE [from |-> i, to |-> g.to, group |-> g.from]

\* String.prototype.match with the flag g: the matched substrings from position pos
\* on, left to right, each search starting where the match before ended
RECURSIVE pathMatches(_, _)
pathMatches(text, pos) ==
    IF \E i \in pos..Len(text) : MatchAt(text, i).from # 0
    THEN LET i == CHOOSE i \in pos..Len(text) :
                      /\ MatchAt(text, i).from # 0
                      /\ \A h \in pos..(i - 1) : MatchAt(text, h).from = 0
             m == MatchAt(text, i)
         IN  <<SubSeq(text, m.from, m.to)>> \o pathMatches(text, m.to + 1)
    ELSE <<>>

\* String.prototype.trim
RECURSIVE trim(_)
trim(t) ==
    IF t = <<>> THEN t
    ELSE IF IsSpace(t[1]) THEN trim(Tail(t))
    ELSE IF IsSpace(t[Len(t)]) THEN trim(SubSeq(t, 1, Len(t) - 1))
    ELSE t

\* match.match(/:\s*(.+)/) and pathMatch[1].trim(): the output path taken from one
\* matched substring (every matched substring has a colon and a group after it)
pathOfMatch(match) ==
    LET g == GroupAfterColon(match, NextIndexOf(match, 1, ":"))
    IN  trim(SubSeq(match, g.from, g.to))

\* outputPaths of executeJob after a successful call: the paths parsed from the
\* result text, or the expected output path if there is none
parsedOutputPaths(text, expected) ==
    LET matches == pathMatches(text, 1)
        outputPaths == [k \in 1..Len(matches) |-> pathOfMatch(matches[k])]
    IN  IF Len(outputPaths) = 0 THEN <<expected>> ELSE outputPaths

(* ---- initial states ---- *)

\* a generate job that leaves model and n to the defaults
PlainJob == [model |-> Absent, n |-> 0, image_path |-> Absent, output_path |-> Absent]

\* the job lists of 1..n such jobs
PlainJobLists(n) == {[i \in 1..k |-> PlainJob] : k \in 1..n}

\* no command line: executeBatch is called by other code
NoArgs == [timeout |-> NoNumber, max_concurrent |-> NoNumber, estimate_only |-> FALSE]

\* options = {} : no allowAnyPath
NoOptions == [allowAnyPath |-> FALSE]

\* the state of a batch before its first job task is created
InitBatch ==
    /\ queue = <<>>
    /\ batchPc = "launching"
    /\ launched = 0
    /\ timer = "unset"
    /\ race = "pending"
    /\ timedOut = FALSE
    /\ results = <<>>
    /\ report = NoReport
    /\ estimate = NoEstimate
    /\ pc = [j \in Jobs |-> "created"]
    /\ attempt = [j \in Jobs |-> 0]
    /\ lastError = [j \in Jobs |-> ""]
    /\ sleptMs = [j \in Jobs |-> 0]
    /\ calls = [j \in Jobs |-> 0]
    /\ failures = [j \in Jobs |-> 0]
    /\ outcome = [j \in Jobs |-> ""]
    /\ outputPath = [j \in Jobs |-> <<>>]
    /\ nonRetryAt = [j \in Jobs |-> 0]

\* executeBatch called directly with a valid configuration
InitState ==
    /\ permits = config.max_concurrent
    /\ options = NoOptions
    /\ cliPc = "none"
    /\ argv = NoArgs
    /\ exitCode = NoNumber
    /\ InitBatch

\* batches of up to MaxJobs jobs under the default retry patterns
Init ==
    /\ config \in [jobs : PlainJobLists(MaxJobs),
                   output_dir : {Absent},
                   default_model : {Absent},
                   timeout : {DefaultTimeoutMs},
                   max_concurrent : 1..MaxConcurrentBound,
                   retry_policy : [max_retries : 0..MaxRetriesBound,
                                   retry_delay_ms : {DefaultRetryDelayMs},
                                   retry_on_errors : {Absent}]]
    /\ observed = FALSE
    /\ InitState

\* the batches of the runs checked for termination
InitTimers ==
    /\ config \in [jobs : PlainJobLists(TimerRunJobs),
                   output_dir : {Absent},
                   default_model : {Absent},
                   timeout : {DefaultTimeoutMs},
                   max_concurrent : 1..MaxConcurrentBound,
                   retry_policy : [max_retries : 0..MaxRetriesBound,
                                   retry_delay_ms : {DefaultRetryDelayMs},
                                   retry_on_errors : {Absent}]]
    /\ observed = FALSE
    /\ InitState

\* runs that observe the attempts of each job: one permit, every retry count the
\* validation admits, a pattern list absent and given
InitRetry ==
    /\ config \in [jobs : PlainJobLists(RetryRunJobs),
                   output_dir : {Absent},
                   default_model : {Absent},
                   timeout : {DefaultTimeoutMs},
                   max_concurrent : {1},
                   retry_policy : [max_retries : 0..MaxRetriesLimit,
                                   retry_delay_ms : {MinRetryDelayMs},
                                   retry_on_errors : RetryOnErrorsChoices]]
    /\ observed = TRUE
    /\ InitState

\* the batches of the runs checked for progress of every job: one permit, so that
\* every job but the first has to wait for it
InitLive ==
    /\ config \in [jobs : PlainJobLists(LiveRunJobs),
                   output_dir : {Absent},
                   default_model : {Absent},
                   timeout : {DefaultTimeoutMs},
                   max_concurrent : {1},
                   retry_policy : [max_retries : 0..MaxRetriesBound,
                                   retry_delay_ms : {DefaultRetryDelayMs},
                                   retry_on_errors : {Absent}]]
    /\ observed = FALSE
    /\ InitState

\* jobs as a configuration file can give them to the estimator
JobChoices ==
    {PlainJob,
     [model |-> "grok-imagine-image", n |-> 2, image_path |-> Absent, output_path |-> Absent],
     [model |-> "grok-imagine-image", n |-> 1, image_path |-> "input.jpg", output_path |-> Absent],
     [model |-> "grok-2-image", n |-> 1, image_path |-> Absent, output_path |-> Absent],
     [model |-> "dall-e-3", n |-> 3, image_path |-> Absent, output_path |-> Absent],
     [model |-> "grok-2-image_edit", n |-> 1, image_path |-> Absent, output_path |-> Absent]}

\* values of default_model of a configuration
DefaultModels == {Absent, "grok-2-image-1212"}

\* the job lists of 1..n jobs of JobChoices
JobLists(n) == UNION {[1..k -> JobChoices] : k \in 1..n}

\* the batches whose cost is estimated: jobs of several models and kinds, run
\* under one permit
InitCost ==
    /\ config \in [jobs : JobLists(CostRunJobs),
                   output_dir : {Absent},
                   default_model : DefaultModels,
                   timeout : {DefaultTimeoutMs},
                   max_concurrent : {1},
                   retry_policy : [max_retries : {1},
                                   retry_delay_ms : {DefaultRetryDelayMs},
                                   retry_on_errors : {Absent}]]
    /\ observed = FALSE
    /\ InitState

\* the batches of the runs that look at the retry decision: a pattern list absent,
\* given and empty
InitDecide ==
    /\ config \in [jobs : PlainJobLists(RetryRunJobs),
                   output_dir : {Absent},
                   default_model : {Absent},
                   timeout : {DefaultTimeoutMs},
                   max_concurrent : {1},
                   retry_policy : [max_retries : 0..MaxRetriesBound,
                                   retry_delay_ms : {DefaultRetryDelayMs},
                                   retry_on_errors : RetryOnErrorsValues]]
    /\ observed = FALSE
    /\ InitState

\* jobs that differ in where their output goes, one of them an edit job
PathJobs ==
    {[PlainJob EXCEPT !.output_path = p] : p \in OutputPaths}
        \cup {[PlainJob EXCEPT !.image_path = "input.jpg"]}

\* the job lists of 1..n jobs of PathJobs
PathJobLists(n) == UNION {[1..k -> PathJobs] : k \in 1..n}

\* the batches whose output paths are resolved: an absolute and a relative output
\* directory, allowAnyPath set and not set, one permit
InitPaths ==
    /\ config \in [jobs : PathJobLists(PathRunJobs),
                   output_dir : {"/out", "./out"},
                   default_model : {Absent},
                   timeout : {DefaultTimeoutMs},
                   max_concurrent : {1},
                   retry_policy : [max_retries : {1},
                                   retry_delay_ms : {DefaultRetryDelayMs},
                                   retry_on_errors : {Absent}]]
    /\ options \in [allowAnyPath : BOOLEAN]
    /\ permits = config.max_concurrent
    /\ cliPc = "none"
    /\ argv = NoArgs
    /\ exitCode = NoNumber
    /\ observed = FALSE
    /\ InitBatch

(* ---- the batch CLI: parseArgs, validateBatchConfig, mergeBatchConfig ---- *)

\* the case '--timeout' of parseArgs: the run goes on unless the value is NaN or
\* below 1000
TimeoutArgAccepted(t) == ~(t = NaN \/ t < 1000)

\* the case '--max-concurrent' of parseArgs
MaxConcurrentArgAccepted(m) == ~(m = NaN \/ m < 1 \/ m > 10)

\* parseArgs returns (it does not call process.exit(1))
parseArgsReturns(args) ==
    /\ args.timeout # NoNumber => TimeoutArgAccepted(args.timeout)
    /\ args.max_concurrent # NoNumber => MaxConcurrentArgAccepted(args.max_concurrent)

\* validateRetryPolicy returns (it does not throw)
validateRetryPolicy(policy) ==
    /\ ~(policy.max_retries < 0 \/ policy.max_retries > MaxRetriesLimit)
    /\ ~(policy.retry_delay_ms < MinRetryDelayMs \/ policy.retry_delay_ms > 60000)

\* validateBatchConfig returns (it does not throw BatchConfigError)
validateBatchConfig(cfg) ==
    /\ ~(Len(cfg.jobs) = 0)
    /\ ~(Len(cfg.jobs) > 100)
    /\ cfg.max_concurrent # NoNumber =>
           ~(cfg.max_concurrent < 1 \/ cfg.max_concurrent > 10)
    /\ cfg.timeout # NoNumber => ~(cfg.timeout < 1000 \/ cfg.timeout > 3600000)
    /\ validateRetryPolicy(cfg.retry_policy)

\* mergeBatchConfig: the command-line overrides, then the defaults
mergeBatchConfig(cfg, args) ==
    LET overridden ==
            [cfg EXCEPT
                !.max_concurrent =
                    IF args.max_concurrent # NoNumber THEN args.max_concurrent ELSE @,
                !.timeout = IF args.timeout # NoNumber THEN args.timeout ELSE @]
    IN  [overridden EXCEPT
            !.max_concurrent = IF @ = NoNumber THEN 2 ELSE @,
            !.timeout = IF @ = NoNumber THEN DefaultTimeoutMs ELSE @,
            !.default_model = IF @ = Absent THEN "grok-imagine-image" ELSE @]

\* (variant: only failed jobs make the exit status 1)
ExitCodeIgnoringCancelled(r) == IF r.failed > 0 THEN 1 ELSE 0

\* process.exit(result.failed > 0 || result.cancelled > 0 ? 1 : 0)
ExitCodeFor(r) == IF r.failed > 0 \/ r.cancelled > 0 THEN 1 ELSE 0

\* values of max_concurrent and timeout in a configuration file
FileMaxConcurrents == {NoNumber, 0, 1, 10, 11}
FileTimeouts == {NoNumber, 999, 1000, 3600000, 3600001}

\* values of --max-concurrent and --timeout after parseInt
ArgMaxConcurrents == {NoNumber, NaN, 0, 1, 10, 11}
ArgTimeouts == {NoNumber, NaN, 999, 1000, 3600000, 3600001}

\* the batch CLI started on a configuration file as loadBatchConfig returns it
InitCli ==
    /\ config \in [jobs : PlainJobLists(CliRunJobs),
                   output_dir : {Absent},
                   default_model : {Absent},
                   timeout : FileTimeouts,
                   max_concurrent : FileMaxConcurrents,
                   retry_policy : [max_retries : {1},
                                   retry_delay_ms : {DefaultRetryDelayMs},
                                   retry_on_errors : {Absent}]]
    /\ argv \in [timeout : ArgTimeouts,
                 max_concurrent : ArgMaxConcurrents,
                 estimate_only : BOOLEAN]
    /\ cliPc = "start"
    /\ options = NoOptions
    /\ exitCode = NoNumber
    /\ permits = 0
    /\ observed = FALSE
    /\ InitBatch

(* ---- executeJob: the result of a successful call ---- *)

\* what the output paths of a completed job depend on: its outputPath, n, kind and
\* model
ResultKey(job, path, cfg) == <<path, jobImages(job), jobIsEdit(job), jobModel(job, cfg)>>

\* the keys of the jobs of all batches modelled
ResultKeys ==
    {ResultKey(job,
               resolveOutputPath(job, i, outputDirOf([output_dir |-> d]), TRUE).path,
               [default_model |-> dm]) :
        job \in JobChoices \cup PathJobs, i \in 1..MaxJobs, d \in OutputDirs,
        dm \in DefaultModels}

\* outputPaths of executeJob for each key, when the Image Operation has saved the n
\* images of the job under its output path and returned its result text (evaluated
\* once). The helpers of utils/path.js (normalizeAndValidatePath,
\* generateUniqueFilePath, getDisplayPath) are taken to leave the path as it is.
OutputPathsTable ==
    [key \in ResultKeys |->
        parsedOutputPaths(resultText(key[3], key[2], savedPaths(key[1], key[2]), key[4]),
                          key[1])]

\* the result executeJob returns after a successful call
CompletedResult(j) ==
    [index |-> j, status |-> "completed", error |-> "",
     output_paths |-> OutputPathsTable[ResultKey(config.jobs[j], outputPath[j], config)]]

(* ---- executeBatch: the synchronous start ---- *)

\* one iteration of the job-creating loop: the task runs up to `await semaphore.acquire()`
LaunchJob ==
    /\ batchPc = "launching"
    /\ launched < NumJobs
    /\ \E j \in {launched + 1} :
       \E resolved \in {resolveOutputPath(config.jobs[j], j, outputDirOf(config),
                                           options.allowAnyPath)} :
         IF resolved.threw
         THEN \* BatchConfigError leaves the loop and executeBatch rejects; the tasks
              \* created before resume, and those with a permit make their first call
              /\ batchPc' = "threw"
              /\ pc' = [k \in Jobs |-> IF pc[k] = "acquired" THEN "calling" ELSE pc[k]]
              /\ calls' = [k \in Jobs |-> IF pc[k] = "acquired" THEN 1 ELSE calls[k]]
              /\ UNCHANGED <<launched, outputPath, permits, queue>>
         ELSE /\ launched' = j
              /\ outputPath' = [outputPath EXCEPT ![j] = resolved.path]
              /\ IF AcquireGrants(permits)
                 THEN /\ permits' = permits - 1
                      /\ queue' = queue
                      /\ pc' = [pc EXCEPT ![j] = "acquired"]
                 ELSE /\ permits' = permits
                      /\ queue' = Enqueue(queue, j)
                      /\ pc' = [pc EXCEPT ![j] = "waiting"]
              /\ UNCHANGED <<batchPc, calls>>
    /\ UNCHANGED <<fixed, timer, race, timedOut, results, report, attempt, lastError,
                   sleptMs, failures, outcome, observed, nonRetryAt>>

\* Promise.race([Promise.all(jobPromises), timeout promise]) and its await; then the
\* tasks that got a permit resume and executeJob makes their first call
StartRace ==
    /\ batchPc = "launching"
    /\ launched = NumJobs
    /\ batchPc' = "racing"
    /\ timer' = "armed"
    /\ pc' = [k \in Jobs |-> IF pc[k] = "acquired" THEN "calling" ELSE pc[k]]
    /\ calls' = [k \in Jobs |-> IF pc[k] = "acquired" THEN 1 ELSE calls[k]]
    /\ UNCHANGED <<fixed, outputPath, permits, queue, launched, race, timedOut, results, report,
                   attempt, lastError, sleptMs, failures, outcome, observed, nonRetryAt>>

(* ---- a job task ---- *)

\* the finally block of task j: semaphore.release(); the task it wakes resumes and
\* executeJob makes its first call
ReleasePermit(j, end) ==
    LET rel == Release(permits, queue) IN
    /\ permits' = rel.permits
    /\ queue' = rel.queue
    /\ pc' = [k \in Jobs |-> IF k = j THEN end
                             ELSE IF k = rel.next THEN "calling"
                             ELSE pc[k]]
    /\ calls' = [k \in Jobs |-> IF k = rel.next /\ k # j THEN 1 ELSE calls[k]]

\* executeJob returned r: results.push(r), then the finally block. If this was the
\* last task and the race is pending, Promise.all fulfils it and executeBatch resumes,
\* builds the report and returns.
Settle(j, r) ==
    LET pushed == Append(results, r)
        returns == /\ batchPc = "racing"
                   /\ race = "pending"
                   /\ \A k \in Jobs \ {j} : pc[k] = "settled"
    IN  /\ ReleasePermit(j, "settled")
        /\ outcome' = [outcome EXCEPT ![j] = r.status]
        /\ race' = IF returns THEN "fulfilled" ELSE race
        /\ \E final \in {IF returns THEN FinalResults(pushed) ELSE pushed} :
              /\ results' = final
              /\ report' = IF returns THEN BuildReport(final) ELSE report
        /\ batchPc' = IF returns THEN "returned" ELSE batchPc

\* (variant: no finally block: the permit is kept when executeJob throws)
RejectWithoutRelease(j) ==
    /\ pc' = [pc EXCEPT ![j] = "rejected"]
    /\ race' = IF batchPc = "racing" /\ race = "pending" THEN "rejected" ELSE race
    /\ batchPc' = IF batchPc = "racing" /\ race = "pending" THEN CatchBranch(timedOut)
                  ELSE batchPc
    /\ UNCHANGED <<permits, queue, calls, results, report, outcome>>

\* executeJob threw: the finally block, then the task rejects. Promise.all rejects
\* the race if it is pending, and the catch of executeBatch decides.
Reject(j) ==
    /\ ReleasePermit(j, "rejected")
    /\ race' = IF batchPc = "racing" /\ race = "pending" THEN "rejected" ELSE race
    /\ batchPc' = IF batchPc = "racing" /\ race = "pending" THEN CatchBranch(timedOut)
                  ELSE batchPc
    /\ UNCHANGED <<results, report, outcome>>

\* the Image Operation call of job j returns normally
AttemptSucceeds(j) ==
    /\ pc[j] = "calling"
    /\ Settle(j, CompletedResult(j))
    /\ UNCHANGED <<fixed, outputPath, launched, timer, timedOut, attempt, lastError, sleptMs,
                   failures, observed, nonRetryAt>>

\* attempt++ and the loop test of executeJob: the next call, or "All retries exhausted"
ContinueLoop(j, msg, slept) ==
    IF LoopContinues(attempt[j] + 1)
    THEN /\ attempt' = [attempt EXCEPT ![j] = @ + 1]
         /\ sleptMs' = [sleptMs EXCEPT ![j] = slept]
         /\ pc' = [pc EXCEPT ![j] = "calling"]
         /\ calls' = [calls EXCEPT ![j] = @ + 1]
         /\ UNCHANGED <<permits, queue, results, report, race, batchPc, outcome>>
    ELSE /\ Settle(j, FailedResult(j, msg))
         /\ UNCHANGED <<attempt, sleptMs>>

\* the Image Operation call of job j rejects with message msg: the catch block and
\* what follows it up to the next suspension
AttemptFails(j, msg) ==
    /\ pc[j] = "calling"
    /\ failures' = [failures EXCEPT ![j] = @ + 1]
    /\ nonRetryAt' = [nonRetryAt EXCEPT ![j] =
                        IF observed /\ @ = 0 /\ ~MatchesPattern(msg) THEN calls[j] ELSE @]
    /\ IF ~ExecutorCatches(msg)
       THEN /\ Reject(j)
            /\ UNCHANGED <<attempt, lastError, sleptMs>>
       ELSE /\ lastError' = [lastError EXCEPT ![j] = msg]
            /\ IF shouldRetry(attempt[j], msg)
               THEN \* await new Promise((resolve) => setTimeout(resolve, retryDelay))
                    /\ pc' = [pc EXCEPT ![j] = "sleeping"]
                    /\ UNCHANGED <<attempt, sleptMs, calls, permits, queue, results,
                                   report, race, batchPc, outcome>>
               ELSE \* no delay: on to the next iteration at once
                    ContinueLoop(j, msg, 0)
    /\ UNCHANGED <<fixed, outputPath, launched, timer, timedOut, observed>>

\* the retry delay of job j elapses
RetryDelayElapsed(j) ==
    /\ pc[j] = "sleeping"
    /\ ContinueLoop(j, lastError[j], RetryDelayFor(attempt[j]))
    /\ UNCHANGED <<fixed, outputPath, launched, timer, timedOut, lastError, failures, observed,
                   nonRetryAt>>

(* ---- executeBatch: the timeout ---- *)

\* the batch timer fires while the race is pending: timedOut = true, the race rejects
\* and the catch of executeBatch decides
BatchTimerFires ==
    /\ timer = "armed"
    /\ race = "pending"
    /\ timer' = "fired"
    /\ timedOut' = TRUE
    /\ race' = "rejected"
    /\ batchPc' = CatchBranch(timedOut')
    /\ UNCHANGED <<fixed, outputPath, permits, queue, launched, results, report, pc, attempt,
                   lastError, sleptMs, calls, failures, outcome, observed, nonRetryAt>>

\* the batch timer (never cleared) fires after the race was decided
LateTimerFires ==
    /\ timer = "armed"
    /\ race # "pending"
    /\ timer' = "fired"
    /\ timedOut' = TRUE
    /\ UNCHANGED <<fixed, outputPath, permits, queue, batchPc, launched, race, results, report, pc,
                   attempt, lastError, sleptMs, calls, failures, outcome, observed,
                   nonRetryAt>>

\* the 2000 ms grace timer fires: executeBatch resumes, sweeps, sorts and returns
GraceElapsed ==
    /\ batchPc = "grace"
    /\ \E final \in {FinalResults(results)} :
          /\ results' = final
          /\ report' = BuildReport(final)
    /\ batchPc' = "returned"
    /\ UNCHANGED <<fixed, outputPath, permits, queue, launched, timer, race, timedOut, pc, attempt,
                   lastError, sleptMs, calls, failures, outcome, observed, nonRetryAt>>

Next ==
    \/ LaunchJob
    \/ StartRace
    \/ \E j \in Jobs : AttemptSucceeds(j)
    \/ \E j \in Jobs : \E msg \in ErrorMessages : AttemptFails(j, msg)
    \/ \E j \in Jobs : RetryDelayElapsed(j)
    \/ BatchTimerFires
    \/ LateTimerFires
    \/ GraceElapsed

Spec == Init /\ [][Next]_vars

\* a call of estimateBatchCost(config) from outside executeBatch, at any time
EstimateCost ==
    /\ estimate' = estimateBatchCost(config)
    /\ UNCHANGED <<config, options, outputPath, cliPc, argv, exitCode, permits, queue,
                   batchPc, launched, timer, race, timedOut, results, report, pc, attempt, lastError,
                   sleptMs, calls, failures, outcome, observed, nonRetryAt>>

NextCost ==
    \/ EstimateCost
    \/ Next

SpecCost == InitCost /\ [][NextCost]_vars

(* ---- main of the batch CLI ---- *)

\* main up to its await of executeBatch: parseArgs, loadBatchConfig,
\* validateBatchConfig, mergeBatchConfig, then the estimate alone or the entry of
\* executeBatch, which constructs the Semaphore
CliStart ==
    /\ cliPc = "start"
    /\ IF ~parseArgsReturns(argv) \/ ~validateBatchConfig(config)
       THEN /\ cliPc' = "exited"
            /\ exitCode' = 1
            /\ UNCHANGED <<config, estimate, permits>>
       ELSE LET mergedConfig == mergeBatchConfig(config, argv) IN
            /\ config' = mergedConfig
            /\ IF argv.estimate_only
               THEN /\ estimate' = estimateBatchCost(mergedConfig)
                    /\ cliPc' = "exited"
                    /\ exitCode' = 0
                    /\ UNCHANGED permits
               ELSE /\ cliPc' = "executing"
                    /\ permits' = mergedConfig.max_concurrent
                    /\ UNCHANGED <<estimate, exitCode>>
    /\ UNCHANGED <<argv, options, outputPath, queue, batchPc, launched, timer, race,
                   timedOut, results,
                   report, pc, attempt, lastError, sleptMs, calls, failures, outcome,
                   observed, nonRetryAt>>

\* executeBatch has settled and main resumes: the result is printed and the process
\* exits (the catch of main exits with 1)
CliExits ==
    /\ cliPc = "executing"
    /\ batchPc \in {"returned", "threw"}
    /\ cliPc' = "exited"
    /\ exitCode' = IF batchPc = "threw" THEN 1 ELSE ExitCodeFor(report)
    /\ UNCHANGED <<config, options, outputPath, estimate, argv, permits, queue, batchPc,
                   launched, timer,
                   race, timedOut, results, report, pc, attempt, lastError, sleptMs,
                   calls, failures, outcome, observed, nonRetryAt>>

\* the steps of the batch while main awaits executeBatch; once executeBatch has
\* settled, main exits the process before any other callback runs
CliBatchStep ==
    /\ cliPc = "executing"
    /\ batchPc \notin {"returned", "threw"}
    /\ \/ LaunchJob
       \/ StartRace
       \/ \E j \in Jobs : AttemptSucceeds(j)
       \/ \E j \in Jobs : \E msg \in ErrorMessages : AttemptFails(j, msg)
       \/ \E j \in Jobs : RetryDelayElapsed(j)
       \/ BatchTimerFires
       \/ GraceElapsed

NextCli ==
    \/ CliStart
    \/ CliBatchStep
    \/ CliExits

SpecCli == InitCli /\ [][NextCli]_vars

SpecRetry == InitRetry /\ [][Next]_vars

SpecPaths == InitPaths /\ [][Next]_vars

SpecDecide == InitDecide /\ [][Next]_vars

\* the batch with an Image Operation that can also reject with null
NextThrow ==
    \/ Next
    \/ \E j \in Jobs : AttemptFails(j, RejectedWithNull)

SpecThrow == InitTimers /\ [][NextThrow]_vars

\* the batch timer and the grace timer fire; an Image Operation call may never return
Fairness ==
    /\ WF_vars(LaunchJob)
    /\ WF_vars(StartRace)
    /\ WF_vars(BatchTimerFires)
    /\ WF_vars(GraceElapsed)

SpecTimers == InitTimers /\ [][Next]_vars /\ Fairness

\* every Image Operation call returns (normally or with an error) and every retry
\* delay elapses
JobFairness ==
    \A j \in 1..LiveRunJobs :
        /\ WF_vars(j \in Jobs /\ (AttemptSucceeds(j)
                                    \/ \E msg \in ErrorMessages : AttemptFails(j, msg)))
        /\ WF_vars(j \in Jobs /\ RetryDelayElapsed(j))

SpecLive == InitLive /\ [][Next]_vars /\ Fairness /\ JobFairness

(***************************************************************************)
(* Properties                                                              *)
(***************************************************************************)

\* the jobs that hold a permit: between a granted acquire and their release
Holders == {j \in Jobs : pc[j] \in {"acquired", "calling", "sleeping"}}

EntriesOf(rs, j) == {k \in 1..Len(rs) : rs[k].index = j}

OnePerJob(rs) ==
    /\ Len(rs) = NumJobs
    /\ \A j \in Jobs : Cardinality(EntriesOf(rs, j)) = 1

Min(a, b) == IF a < b THEN a ELSE b

\* C1: the report executeBatch returns holds exactly one result per job: as many
\* results as jobs, their indices exactly 1..len(jobs), whether the batch finished
\* or timed out (stated of the report at the step that returns it).
ReportHasOneResultPerJob ==
    [][(batchPc # "returned" /\ batchPc' = "returned") => OnePerJob(results')]_vars

\* C1 witness: a report returned after a timeout, with finished and swept jobs
TimedOutReportReturned ==
    /\ batchPc = "returned"
    /\ race = "rejected"
    /\ OnePerJob(results)
    /\ \E k \in 1..Len(results) : results[k].status = "cancelled"
    /\ \E k \in 1..Len(results) : results[k].status = "completed"

\* C2: in every report returned, succeeded + failed + cancelled equals the number of
\* jobs, which is the reported total.
ReportCountsAddUp ==
    batchPc = "returned" =>
        /\ report.total = NumJobs
        /\ report.succeeded + report.failed + report.cancelled = NumJobs

\* C2 witness: a report with jobs of all three kinds
ReportWithAllThreeKinds ==
    /\ batchPc = "returned"
    /\ report.succeeded > 0
    /\ report.failed > 0
    /\ report.cancelled > 0

\* C3: never more than max_concurrent jobs hold a permit at the same time.
ConcurrencyBound == Cardinality(Holders) <= config.max_concurrent

\* C3 witness: all permits held while a job waits, after a job has finished
PermitsExhaustedAfterHandover ==
    /\ Cardinality(Holders) = config.max_concurrent
    /\ queue # <<>>
    /\ \E j \in Jobs : pc[j] = "settled"

\* C4: a job whose first attempt fails with a message that matches no retry pattern
\* yields Failed after exactly one Image Operation call, whatever max_retries is.
NonRetryableFailsAtOnce ==
    \A j \in Jobs :
        nonRetryAt[j] = 1 =>
            /\ pc[j] = "settled"
            /\ outcome[j] = "failed"
            /\ calls[j] = 1

\* C5: a job never makes more than max_retries + 1 calls, and a job whose every
\* attempt fails with a retryable error makes exactly max_retries + 1 calls and
\* then yields Failed.
RetryBound ==
    \A j \in Jobs :
        /\ calls[j] <= maxRetries + 1
        /\ (outcome[j] = "failed" /\ nonRetryAt[j] = 0) =>
               (calls[j] = maxRetries + 1 /\ failures[j] = maxRetries + 1)
        /\ (nonRetryAt[j] = 0 /\ failures[j] = maxRetries + 1) => outcome[j] = "failed"

\* C5 witness: a job that failed after six retryable errors under max_retries = 5
FailedAfterAllRetries ==
    \E j \in Jobs :
        /\ maxRetries = MaxRetriesLimit
        /\ outcome[j] = "failed"
        /\ nonRetryAt[j] = 0
        /\ calls[j] = MaxRetriesLimit + 1

DelayBeforeEveryRetry ==
    \A j \in Jobs :
        (pc[j] = "calling" /\ attempt[j] > 0) => sleptMs[j] = retryDelay

\* C8: when the batch timer fires first, the report built when the grace period ends
\* gives Cancelled (timeout) to every job without a recorded outcome and its own
\* outcome to every other job; succeeded + failed counts the jobs whose executors
\* had returned. A job whose executor has not returned is reported Cancelled.
TimeoutSweep ==
    /\ [][(batchPc = "grace" /\ batchPc' = "returned") =>
            /\ \A j \in Jobs :
                 \E k \in 1..Len(results') :
                    /\ results'[k].index = j
                    /\ IF pc[j] = "settled"
                       THEN results'[k].status = outcome[j]
                       ELSE /\ results'[k].status = "cancelled"
                            /\ results'[k].error = "Job cancelled due to timeout"
            /\ report'.succeeded + report'.failed =
                   Cardinality({j \in Jobs : pc[j] = "settled"})
            /\ report'.cancelled = Cardinality({j \in Jobs : pc[j] # "settled"})]_vars
    /\ [](batchPc = "returned" =>
            \A j \in Jobs :
                pc[j] # "settled" =>
                    \E k \in 1..Len(results) :
                        results[k].index = j /\ results[k].status = "cancelled")

\* C8 witness: a timed-out report with swept jobs still running and finished jobs
SweptWhileRunning ==
    /\ batchPc = "returned"
    /\ race = "rejected"
    /\ \E j \in Jobs : pc[j] \in {"calling", "sleeping", "waiting"}
    /\ report.cancelled > 0
    /\ report.succeeded + report.failed > 0

\* C9: if the batch timer and the grace timer fire, executeBatch returns, once, even
\* if Image Operation calls never return: it never rejects, and once it has returned
\* it stays returned with the counts it reported.
ReturnsExactlyOnce ==
    /\ <>(batchPc = "returned")
    /\ [](batchPc # "threw")
    /\ [][batchPc = "returned" => (batchPc' = "returned" /\ report' = report)]_vars

\* C9 witness: a report returned while no Image Operation call has returned
ReturnedWithNoCallBack ==
    /\ batchPc = "returned"
    /\ \A j \in Jobs : outcome[j] = "" /\ failures[j] = 0
    /\ report.cancelled = NumJobs

\* C10: a failing job never makes executeBatch reject; it appears as Failed with its
\* own last error, its permit goes to the waiting jobs, and in a batch that finishes
\* before the timer every job is reported with the outcome of its own execution.
ErrorsAreIsolated ==
    /\ batchPc # "threw"
    /\ \A j \in Jobs : pc[j] # "rejected"
    /\ \A j \in Jobs :
         outcome[j] = "failed" =>
             \E k \in 1..Len(results) :
                 results[k] = [index |-> j, status |-> "failed", error |-> lastError[j]]
    /\ (batchPc # "launching" /\ queue # <<>>) =>
           Cardinality(Holders) = config.max_concurrent
    /\ race = "fulfilled" =>
           \A j \in Jobs :
               /\ outcome[j] \in {"completed", "failed"}
               /\ \E k \in 1..Len(results) :
                      results[k].index = j /\ results[k].status = outcome[j]

\* C10 witness: a batch that finished with a job run and completed after the job
\* before it had failed and released the only permit
CompletedAfterAFailure ==
    /\ batchPc = "returned"
    /\ race = "fulfilled"
    /\ config.max_concurrent = 1
    /\ \E i, j \in Jobs : i < j /\ outcome[i] = "failed" /\ outcome[j] = "completed"

StrictlyAscending(rs) == \A k \in 1..(Len(rs) - 1) : rs[k].index < rs[k + 1].index

\* C11: the results of the report executeBatch returns are in strictly ascending
\* order of job index, whatever order the jobs finished in and whether entries were
\* added by the sweep; a batch whose jobs all succeed reports succeeded = len(jobs),
\* failed = 0, cancelled = 0 and the indices 1, 2, ..., len(jobs).
ReportIsSortedByIndex ==
    [][(batchPc # "returned" /\ batchPc' = "returned") =>
          /\ StrictlyAscending(results')
          /\ (\A j \in Jobs : outcome'[j] = "completed") =>
                 /\ report' = [report' EXCEPT !.succeeded = NumJobs, !.failed = 0,
                                              !.cancelled = 0]
                 /\ \A k \in 1..NumJobs : results'[k].index = k]_vars

\* C11 witness: a report, still as returned, of a batch of three jobs where job 2
\* never finished: the pushes came for jobs 1 and 3 and the sweep added 2 behind
\* them, so the sort had to move it
SortedAfterOutOfOrderFinish ==
    /\ batchPc = "returned"
    /\ NumJobs = 3
    /\ Len(results) = 3
    /\ StrictlyAscending(results)
    /\ results[1].status = "completed"
    /\ results[2].status = "cancelled"
    /\ results[3].status = "failed"
    /\ pc[2] = "calling"

\* C12: once executeBatch has returned, the report is not changed by jobs that
\* complete late: its results keep one entry per job, in ascending order of index,
\* and agree with the counts reported.
ReportKeptAfterReturn ==
    batchPc = "returned" =>
        /\ OnePerJob(results)
        /\ StrictlyAscending(results)
        /\ report.succeeded = CountStatus(results, "completed")
        /\ report.failed = CountStatus(results, "failed")
        /\ report.cancelled = CountStatus(results, "cancelled")

Price(m) ==
    IF m \in {"grok-2-image", "grok-2-image-latest", "grok-2-image-1212"}
    THEN [base |-> 70, edit_input |-> 0]
    ELSE [base |-> 20, edit_input |-> 2]

\* the jobs of the (model, isEdit) group
Group(cfg, m, e) ==
    {i \in 1..Len(cfg.jobs) :
        jobModel(cfg.jobs[i], cfg) = m /\ jobIsEdit(cfg.jobs[i]) = e}

RECURSIVE SumImages(_, _)
SumImages(cfg, group) ==
    IF group = {} THEN 0
    ELSE LET i == CHOOSE i \in group : TRUE
         IN  jobImages(cfg.jobs[i]) + SumImages(cfg, group \ {i})

GroupCost(cfg, m, e) ==
    Price(m).base * SumImages(cfg, Group(cfg, m, e))
        + (IF e THEN Price(m).edit_input * Cardinality(Group(cfg, m, e)) ELSE 0)

RECURSIVE SumGroups(_, _)
SumGroups(cfg, pairs) ==
    IF pairs = {} THEN 0
    ELSE LET p == CHOOSE p \in pairs : TRUE
         IN  GroupCost(cfg, p[1], p[2]) + SumGroups(cfg, pairs \ {p})

\* C14: every (model, isEdit) group of the batch has a breakdown entry that costs
\* base(model) x (sum of n over the group) plus, for edits, surcharge(model) x (jobs
\* of the group), a model that is not in the price list priced as
\* grok-imagine-image; the totals are the sums over the groups.
EstimateFollowsPriceList ==
    estimate # NoEstimate =>
        LET pairs == {p \in ModelNames \X BOOLEAN : Group(config, p[1], p[2]) # {}} IN
        /\ \A p \in pairs :
              \E k \in 1..Len(estimate.breakdown) :
                 /\ estimate.breakdown[k].count = Cardinality(Group(config, p[1], p[2]))
                 /\ estimate.breakdown[k].images =
                        SumImages(config, Group(config, p[1], p[2]))
                 /\ estimate.breakdown[k].costMin = GroupCost(config, p[1], p[2])
                 /\ estimate.breakdown[k].costMax = GroupCost(config, p[1], p[2])
        /\ Len(estimate.breakdown) = Cardinality(pairs)
        /\ estimate.totalJobs = NumJobs
        /\ estimate.totalImages = SumImages(config, 1..NumJobs)
        /\ estimate.estimatedCostMin = SumGroups(config, pairs)
        /\ estimate.estimatedCostMax = SumGroups(config, pairs)

\* C15: the estimated cost of a report is the estimatedCostMin that
\* estimateBatchCost gives for the batch, all its jobs counted, whatever the
\* outcomes of the jobs are.
ReportCostIsTheEstimate ==
    batchPc = "returned" =>
        report.estimated_cost = EstimateJobs(config.jobs, config).estimatedCostMin

\* C15 witness: a report of two jobs of different models, one failed and one
\* cancelled, that carries the cost of both
CostOfFailedAndCancelled ==
    /\ batchPc = "returned"
    /\ NumJobs = 2
    /\ report.failed = 1
    /\ report.cancelled = 1
    /\ jobModel(config.jobs[1], config) # jobModel(config.jobs[2], config)
    /\ report.estimated_cost =
           GroupCost(config, jobModel(config.jobs[1], config), jobIsEdit(config.jobs[1]))
         + GroupCost(config, jobModel(config.jobs[2], config), jobIsEdit(config.jobs[2]))

\* C16: the limiter is FIFO: a waiting job is granted a permit only if no job that
\* is still waiting started to wait before it (the jobs call acquire() in the order
\* of their indices, and queue keeps them in that order).
LimiterIsFifo ==
    /\ [][\A j \in Jobs :
             (pc[j] = "waiting" /\ pc'[j] # "waiting") =>
                 /\ queue # <<>>
                 /\ j = Head(queue)
                 /\ queue' = Tail(queue)
                 /\ \A k \in Jobs : pc[k] = "waiting" => j <= k]_vars
    /\ [](\A a, b \in 1..Len(queue) : a < b => queue[a] < queue[b])

\* C16 witness: with two jobs waiting, the permit went to the one that waited longer
OldestWaiterServedFirst ==
    /\ NumJobs = 3
    /\ pc[1] = "settled"
    /\ pc[2] = "calling"
    /\ pc[3] = "waiting"
    /\ queue = <<3>>

\* C17: if every Image Operation call returns and every delay elapses, every job of
\* the batch gets a permit, runs its executor and has its outcome recorded, also the
\* jobs that had to wait for a permit and also after the batch has timed out.
EveryJobGetsItsTurn ==
    <>(\A j \in Jobs :
          /\ calls[j] >= 1
          /\ pc[j] = "settled"
          /\ \E k \in 1..Len(results) :
                 results[k].index = j /\ results[k].status = outcome[j])

\* C17 witness: more jobs than permits, and the last job, which had to wait, has
\* run and is recorded
WaitingJobWasServed ==
    /\ NumJobs > config.max_concurrent
    /\ \A j \in Jobs : pc[j] = "settled" /\ calls[j] >= 1
    /\ \E k \in 1..Len(results) :
           results[k].index = NumJobs /\ results[k].status \in {"completed", "failed"}

\* C18: under the default retry patterns a call rejected for HTTP 429 is classified
\* retryable, and the attempt that follows it begins only after retry_delay_ms.
RateLimitIsRetriedByDefault ==
    config.retry_policy.retry_on_errors = Absent =>
        \A j \in Jobs :
            lastError[j] = MsgRateLimit =>
                /\ MatchesPattern(MsgRateLimit)
                /\ (pc[j] = "calling" /\ attempt[j] > 0) => sleptMs[j] = retryDelay

\* C19: every batch that the CLI hands to executeBatch has max_concurrent in 1..10
\* and timeout in 1000..3600000 ms; a value outside is rejected before any job is
\* scheduled.
EffectiveLimitsInRange ==
    cliPc = "executing" =>
        /\ config.max_concurrent \in 1..10
        /\ permits + Cardinality(Holders) = config.max_concurrent
        /\ config.timeout >= 1000
        /\ config.timeout <= 3600000

IsInside(p, dir) ==
    LET ps == Split(resolve(p))
        ds == Split(resolve(dir))
    IN  Len(ps) > Len(ds) /\ SubSeq(ps, 1, Len(ds)) = ds

\* C21: unless allowAnyPath is set, every output path resolveOutputPath returns for a
\* job lies inside the output directory of the batch (a job whose output_path would
\* resolve outside it is rejected with BatchConfigError instead).
OutputPathsStayInside ==
    ~options.allowAnyPath =>
        \A j \in Jobs :
            outputPath[j] # <<>> => IsInside(outputPath[j], outputDirOf(config))

\* C24: a configuration error is raised before scheduling begins: whenever
\* executeBatch has failed with BatchConfigError (the output path of some job could
\* not be resolved), no job of the batch has acquired a permit and no Image Operation
\* call has been made for it, then or later.
ConfigErrorBeforeScheduling ==
    batchPc = "threw" =>
        /\ permits = config.max_concurrent
        /\ \A j \in Jobs : pc[j] = "created" /\ calls[j] = 0

\* C22: the executor returns Completed or Failed only, never Cancelled; in a batch
\* whose tasks all finish before the batch timer fires, the report holds no Cancelled
\* entry and every job is reported with the outcome its executor returned; a
\* Cancelled entry exists only in the report of a batch that timed out.
NoCancelledWithoutTimeout ==
    /\ \A j \in Jobs : outcome[j] \in {"", "completed", "failed"}
    /\ (batchPc = "returned" /\ race = "fulfilled") =>
           /\ report.cancelled = 0
           /\ \A k \in 1..Len(results) : results[k].status # "cancelled"
           /\ \A j \in Jobs :
                  results[j] = IF outcome[j] = "completed" THEN CompletedResult(j)
                               ELSE FailedResult(j, lastError[j])
    /\ \A k \in 1..Len(results) :
           results[k].status = "cancelled" =>
               (batchPc = "returned" /\ race = "rejected" /\ timedOut)

\* C22 witness: a batch of three jobs that finished before the timer, with completed
\* and failed jobs in its report
FinishedBeforeTimer ==
    /\ batchPc = "returned"
    /\ race = "fulfilled"
    /\ timer = "armed"
    /\ NumJobs = 3
    /\ report.succeeded > 0
    /\ report.failed > 0

\* C23: a job whose executor returns after the batch timer has fired and before the
\* grace period ends is recorded and reported with its own Completed or Failed
\* outcome; when the grace period ends, exactly the jobs without a recorded outcome
\* are reported Cancelled.
LateOutcomesAreKept ==
    /\ [][\A j \in Jobs :
             (batchPc = "grace" /\ outcome[j] = "" /\ outcome'[j] # "") =>
                 /\ batchPc' = "grace"
                 /\ outcome'[j] \in {"completed", "failed"}
                 /\ SubSeq(results', 1, Len(results)) = results
                 /\ Len(results') = Len(results) + 1
                 /\ results'[Len(results')].index = j
                 /\ results'[Len(results')].status = outcome'[j]]_vars
    /\ [][(batchPc = "grace" /\ batchPc' = "returned") =>
             /\ \A j \in Jobs :
                    /\ outcome[j] # "" => results'[j].status = outcome[j]
                    /\ outcome[j] = "" => results'[j].status = "cancelled"
             /\ report'.cancelled = Cardinality({j \in Jobs : outcome[j] = ""})]_vars

\* C23 witness: a report of a batch that timed out while jobs were running, yet
\* without a Cancelled entry: the jobs still running when the timer fired landed a
\* completed and a failed outcome within the grace period
AllLandedWithinGrace ==
    /\ batchPc = "returned"
    /\ race = "rejected"
    /\ timedOut
    /\ report.cancelled = 0
    /\ report.succeeded > 0
    /\ report.failed > 0

\* the characters of pat stand in msg from position i + 1 on, letter case ignored
StandsAt(msg, pat, i) ==
    /\ i + Len(pat) <= Len(msg)
    /\ \A c \in 1..Len(pat) : LowerChar(msg[i + c]) = LowerChar(pat[c])

\* the pattern list of a policy: the built-in one only when none is given
PatternsOf(policy) ==
    CASE policy.retry_on_errors = Absent ->
           << <<"r","a","t","e","_","l","i","m","i","t">>, <<"t","i","m","e","o","u","t">>,
              <<"4","2","9">>, <<"5","0","3">> >>
      [] policy.retry_on_errors = "empty" -> <<>>
      [] policy.retry_on_errors = "custom" -> CustomRetryPatterns

\* C25: after a failed attempt with index a the executor decides to retry (and waits
\* the delay) if and only if a < max_retries and the error message contains, letter
\* case ignored, at least one pattern of the policy's list; an empty list makes no
\* error retryable and the built-in patterns count only when no list is given.
RetryDecision ==
    [][\A j \in Jobs :
          failures'[j] = failures[j] + 1 =>
              (pc'[j] = "sleeping" <=>
                  /\ attempt[j] < config.retry_policy.max_retries
                  /\ \E k \in 1..Len(PatternsOf(config.retry_policy)) :
                         \E i \in 0..Len(Chars(lastError'[j])) :
                             StandsAt(Chars(lastError'[j]),
                                      PatternsOf(config.retry_policy)[k], i))]_vars

\* C25 witness: under an empty pattern list and max_retries = 1, the first attempt
\* failed with a 503 and the second call was made at once, without a retry delay
NoRetryUnderEmptyList ==
    \E j \in Jobs :
        /\ config.retry_policy.retry_on_errors = "empty"
        /\ config.retry_policy.max_retries = 1
        /\ lastError[j] = MsgServer503
        /\ failures[j] = 1
        /\ pc[j] = "calling"
        /\ sleptMs[j] = 0

\* C26: a completed job lists one output path per image: its output_paths has as
\* many entries as the job has images, entry i being the path the Image Operation
\* saved image i to (the output path of the job, numbered _1.._n when n > 1).
OnePathPerImage ==
    \A k \in 1..Len(results) :
        results[k].status = "completed" =>
            LET j == results[k].index
                n == jobImages(config.jobs[j])
            IN  /\ Len(results[k].output_paths) = n
                /\ \A i \in 1..n :
                       results[k].output_paths[i] = imagePath(outputPath[j], n, i)

\* C27: a timeout does not withdraw the jobs that wait for a permit: neither the
\* batch timer nor the return of the report changes the queue, and if the calls of
\* the jobs that hold the permits return, a job that is still waiting when the
\* report has been returned is granted a permit and calls the Image Operation.
WaitersOutliveTheTimeout ==
    /\ [][(timedOut' # timedOut \/ batchPc' = "returned") =>
             (queue' = queue \/ \E j \in Jobs : pc[j] # pc'[j] /\ pc'[j] = "settled")]_vars
    /\ \A j \in 1..LiveRunJobs :
           (j \in Jobs /\ batchPc = "returned" /\ pc[j] = "waiting")
               ~> (j \in Jobs /\ calls[j] >= 1 /\ pc[j] # "waiting")

\* C27 witness: a job that the returned report marks Cancelled, and that waited for
\* a permit when the batch timed out, is in its Image Operation call
CancelledJobIsCalling ==
    \E j \in Jobs :
        /\ batchPc = "returned"
        /\ timedOut
        /\ results[j] = CancelledResult(j)
        /\ failures[j] = 0
        /\ pc[j] = "calling"
        /\ j > config.max_concurrent

\* C28: the Semaphore created with max_concurrent permits keeps, in every state:
\* permits >= 0; permits plus the number of tasks that were granted a permit and have
\* not released it equals max_concurrent; and permits > 0 only while no task waits.
\* The queue holds exactly the waiting tasks.
SemaphoreInvariant ==
    /\ permits >= 0
    /\ permits + Cardinality(Holders) = config.max_concurrent
    /\ permits > 0 => queue = <<>>
    /\ {queue[k] : k \in 1..Len(queue)} = {j \in Jobs : pc[j] = "waiting"}
    /\ Len(queue) = Cardinality({j \in Jobs : pc[j] = "waiting"})

\* C28 witness: of two permits one is idle and one is held, after the job that had
\* to wait was served
OnePermitIdleAfterHandover ==
    /\ NumJobs = 3
    /\ config.max_concurrent = 2
    /\ permits = 1
    /\ queue = <<>>
    /\ pc[3] = "calling"
    /\ pc[1] = "settled"
    /\ pc[2] = "settled"

\* C29: a task releases its permit exactly once, in the step in which it ends, whether
\* executeJob returned or threw: that step hands the permit to the oldest waiter or
\* puts it back, and a task that has ended takes no further step. Once all tasks of a
\* batch have ended, the semaphore holds max_concurrent permits and nobody waits.
PermitReleasedOnce ==
    /\ [][\A j \in Jobs :
             /\ (pc[j] \in {"calling", "sleeping"} /\ pc'[j] \in {"settled", "rejected"}) =>
                    IF queue = <<>>
                    THEN permits' = permits + 1 /\ queue' = queue
                    ELSE /\ permits' = permits
                         /\ queue' = Tail(queue)
                         /\ pc'[Head(queue)] = "calling"
             /\ pc[j] \in {"settled", "rejected"} => pc'[j] = pc[j]
             /\ permits' > permits => \E k \in Jobs : pc'[k] # pc[k]
                                                       /\ pc'[k] \in {"settled", "rejected"}]_vars
    /\ []((\A j \in Jobs : pc[j] \in {"settled", "rejected"}) =>
             (permits = config.max_concurrent /\ queue = <<>>))

\* C29 witness: one permit, two jobs: executeJob of the first threw, the second got
\* the permit, completed, and the permit is back
PermitBackAfterThrow ==
    /\ NumJobs = 2
    /\ config.max_concurrent = 1
    /\ pc[1] = "rejected"
    /\ pc[2] = "settled"
    /\ outcome[2] = "completed"
    /\ permits = 1
    /\ queue = <<>>

\* a job has been granted a permit
Admitted(j) == pc[j] \notin {"created", "waiting"}

\* C30: jobs are admitted in the order of the job list: whenever a job has acquired
\* its permit, every job before it in the list has acquired its own, and a job is
\* admitted only when all jobs before it are; so the first attempts begin in this
\* order too.
AdmittedInListOrder ==
    /\ [](\A i, j \in Jobs : (i < j /\ Admitted(j)) => Admitted(i))
    /\ [](\A i, j \in Jobs : (i < j /\ calls[j] >= 1) => calls[i] >= 1)
    /\ [][\A j \in Jobs :
             (~Admitted(j) /\ Admitted(j)') => \A i \in 1..(j - 1) : Admitted(i)]_vars

\* C30 witness: two permits, three jobs: the second job finished first and the third
\* was admitted while the first is still in its call
ThirdAdmittedAfterSecondFinished ==
    /\ NumJobs = 3
    /\ config.max_concurrent = 2
    /\ pc[1] = "calling"
    /\ failures[1] = 0
    /\ pc[2] = "settled"
    /\ pc[3] = "calling"

====
